---- MODULE Spec2Model ----
(***************************************************************************)
(* Model of the reservation page controller, src/frontend/script.js.       *)
(*                                                                         *)
(* Text is modelled as a sequence of pieces, each one character or a run of *)
(* characters that are neither white space nor special to any operation,   *)
(* so that trim, parseInt, escapeXml and the e-mail pattern are computed   *)
(* as the code computes them.                                              *)
(* A message shown to the user is a sequence of text pieces.  The icons    *)
(* that showMessage and the message literals carry are left out of the     *)
(* pieces: they are decoration on every message alike.                     *)
(***************************************************************************)
EXTENDS Integers, Sequences, FiniteSets, Bags, TLC

VARIABLES
    editMode,        \* script.js:4
    currentEditId,   \* script.js:5
    form,            \* the values of the twelve inputs of personalForm and bookingForm
    searchInput,     \* value of #searchInput
    responseFormat,  \* value of the #responseFormat selector
    table,           \* the rows of #reservationsTable tbody
    message,         \* the message showMessage showed last (its timer takes the element away 5 s later)
    modal,           \* #viewModal: whether it is displayed, and the content of #modalDetails
    currentFormat,   \* text of #currentFormat, which toggleFormat switches
    timezone,        \* the hours the clock of the browser is behind UTC
    pending,         \* the bag of fetches awaiting their response, each with the locals of its suspended handler
    last             \* the handler of script.js that ran last, and how it ended

vars ==
    <<editMode, currentEditId, form, searchInput, responseFormat, table, message, modal,
      currentFormat, timezone, pending, last>>

----------------------------------------------------------------------------
(* Bounds                                                                  *)

\* no user action starts a fetch while this many are outstanding
MaxPending == 2

\* the longest text drawn from an alphabet for one form field
MaxLen == 2

\* the most records in a list response whose order is checked
MaxRows == 4

----------------------------------------------------------------------------
(* Text                                                                    *)

Whitespace == {" "}

Digits == <<"0", "1", "2", "3", "4", "5", "6", "7", "8", "9">>

IsDigit(c) == \E i \in 1..10 : Digits[i] = c

DigitValue(c) == (CHOOSE i \in 1..10 : Digits[i] = c) - 1

RECURSIVE trimStart(_)
trimStart(s) ==
    IF s # <<>> /\ Head(s) \in Whitespace THEN trimStart(Tail(s)) ELSE s

RECURSIVE trimEnd(_)
trimEnd(s) ==
    IF s # <<>> /\ s[Len(s)] \in Whitespace
    THEN trimEnd(SubSeq(s, 1, Len(s) - 1))
    ELSE s

\* String.prototype.trim
trim(s) == trimEnd(trimStart(s))

\* String.prototype.replace(pattern, by) with a string pattern: the first match only
RECURSIVE replaceFirst(_, _, _)
replaceFirst(s, c, by) ==
    IF s = <<>> THEN <<>>
    ELSE IF Head(s) = c THEN <<by>> \o Tail(s)
    ELSE <<Head(s)>> \o replaceFirst(Tail(s), c, by)

RECURSIVE natToString(_)
natToString(n) ==
    IF n < 10 THEN <<Digits[n + 1]>>
    ELSE natToString(n \div 10) \o <<Digits[(n % 10) + 1]>>

\* Number.prototype.toString of an integer
toString(n) == IF n < 0 THEN <<"-">> \o natToString(-n) ELSE natToString(n)

\* a JavaScript number: NaN, or the integer val * 10^exp.  exp is 0 but for the
\* integers that Number.prototype.toString writes in exponent form
NaN == [nan |-> TRUE, val |-> 0, exp |-> 0]

Number(n) == [nan |-> FALSE, val |-> n, exp |-> 0]

Scaled(m, e) == [nan |-> FALSE, val |-> m, exp |-> e]

\* Number.prototype.toString writes an integer of more than this many digits in
\* exponent form
ExponentDigits == 21

RECURSIVE digitsPrefix(_, _, _)
\* the value of the leading digits of s; NaN when s does not start with a digit
digitsPrefix(s, acc, seen) ==
    IF s # <<>> /\ IsDigit(Head(s))
    THEN digitsPrefix(Tail(s), acc * 10 + DigitValue(Head(s)), TRUE)
    ELSE IF seen THEN Number(acc) ELSE NaN

RECURSIVE digitRun(_)
\* the leading digits of s
digitRun(s) ==
    IF s # <<>> /\ IsDigit(Head(s)) THEN <<Head(s)>> \o digitRun(Tail(s)) ELSE <<>>

RECURSIVE dropLeadingZeros(_)
dropLeadingZeros(ds) ==
    IF ds # <<>> /\ Head(ds) = "0" THEN dropLeadingZeros(Tail(ds)) ELSE ds

RECURSIVE dropTrailingZeros(_)
dropTrailingZeros(ds) ==
    IF ds # <<>> /\ ds[Len(ds)] = "0"
    THEN dropTrailingZeros(SubSeq(ds, 1, Len(ds) - 1))
    ELSE ds

\* the number a run of digits denotes: a run of more than ExponentDigits digits is
\* kept as its digits before the trailing zeros, times the power of ten
digitsValue(ds) ==
    LET sig == dropLeadingZeros(ds)
        m   == dropTrailingZeros(sig)
    IN  IF sig = <<>> THEN Number(0)
        ELSE IF Len(sig) > ExponentDigits
        THEN Scaled(digitsPrefix(m, 0, FALSE).val, Len(sig) - Len(m))
        ELSE digitsPrefix(sig, 0, FALSE)

\* parseInt of a string: leading white space, an optional sign, then the leading digits
parseInt(s) ==
    LET t == trimStart(s)
        neg == t # <<>> /\ Head(t) = "-"
        u == IF t # <<>> /\ Head(t) \in {"-", "+"} THEN Tail(t) ELSE t
        p == IF digitRun(u) = <<>> THEN NaN ELSE digitsValue(digitRun(u))
    IN  IF p.nan THEN NaN ELSE IF neg THEN [p EXCEPT !.val = -p.val] ELSE p

\* x || d for a number x: NaN and 0 are falsy
NumberOr(p, d) == IF p.nan \/ p.val = 0 THEN Number(d) ELSE p

RECURSIVE zeros(_)
zeros(n) == IF n = 0 THEN <<>> ELSE <<"0">> \o zeros(n - 1)

\* Number.prototype.toString of a number that is an integer
numberToString(p) ==
    LET digits == natToString(IF p.val < 0 THEN -p.val ELSE p.val)
        sign   == IF p.val < 0 THEN <<"-">> ELSE <<>>
    IN  IF p.nan THEN <<"NaN">>
        ELSE IF Len(digits) + p.exp <= ExponentDigits
        THEN sign \o digits \o zeros(p.exp)
        ELSE sign \o <<Head(digits)>>
                  \o (IF Len(digits) > 1 THEN <<".">> \o Tail(digits) ELSE <<>>)
                  \o <<"e", "+">> \o natToString(Len(digits) + p.exp - 1)

----------------------------------------------------------------------------
(* Dates: the value of a date input is "" or YYYY-MM-DD                      *)

\* n written with two digits
twoDigits(n) == <<Digits[(n \div 10) + 1], Digits[(n % 10) + 1]>>

\* the date string of the day d of the month m of the year y
IsoDate(y, m, d) == natToString(y) \o <<"-">> \o twoDigits(m) \o <<"-">> \o twoDigits(d)

\* the date string of the d-th of January 2027
DateStr(d) == IsoDate(2027, 1, d)

\* new Date(s) for such a date string: the midnight of UTC that starts the day, as
\* a count of hours; it orders the dates as their time values do
NewDate(s) ==
    LET y == digitsPrefix(SubSeq(s, 1, 4), 0, FALSE).val
        m == digitsPrefix(SubSeq(s, 6, 7), 0, FALSE).val
        d == digitsPrefix(SubSeq(s, 9, 10), 0, FALSE).val
    IN  ((y * 12 + m) * 31 + d) * 24

\* where the browser may run, as the hours its clock is behind UTC: Manila, London
\* in winter, New York in winter
Manila == -8

Zones == {Manila, 0, 5}

\* the date of the day after the day the page runs on, by the clock of the browser
TomorrowDate == DateStr(3)

\* tomorrow of lines 309-311: the midnight of the browser's clock that starts that day
Tomorrow == NewDate(TomorrowDate) + timezone

----------------------------------------------------------------------------
(* The form                                                                *)

FieldIds ==
    {"guest_name", "email", "phone", "street_address", "municipality", "region",
     "country", "resort_name", "checkin_date", "checkout_date", "guests", "payment_gateway"}

\* a field id as text, cut at its underscores
fieldIdText(fieldId) ==
    CASE fieldId = "guest_name"    -> <<"guest", "_", "name">>
      [] fieldId = "email"         -> <<"email">>
      [] fieldId = "resort_name"   -> <<"resort", "_", "name">>
      [] fieldId = "checkin_date"  -> <<"checkin", "_", "date">>
      [] fieldId = "checkout_date" -> <<"checkout", "_", "date">>
      [] fieldId = "guests"        -> <<"guests">>

requiredFields ==
    <<"guest_name", "email", "resort_name", "checkin_date", "checkout_date", "guests">>

\* the default country, as one piece of text
Philippines == <<"Philippines">>

\* the inputs as form.reset() leaves them: every default value is empty
FormDefaults == [f \in FieldIds |-> <<>>]

\* a form that passes every check and draws no warning
ValidForm ==
    [FormDefaults EXCEPT
        !.guest_name = <<"A", "l">>,
        !.email = <<"a", "@", "b", ".", "c">>,
        !.country = Philippines,
        !.resort_name = <<"R">>,
        !.checkin_date = DateStr(5),
        !.checkout_date = DateStr(6),
        !.guests = <<"2">>]

\* what the user may have typed into the form
FormInputs ==
    { ValidForm,
      [ValidForm EXCEPT !.guest_name = <<>>],
      [ValidForm EXCEPT !.guest_name = <<" ">>],
      [ValidForm EXCEPT !.email = <<"a", "b">>],
      [ValidForm EXCEPT !.checkout_date = DateStr(5)] }

----------------------------------------------------------------------------
(* Messages                                                                *)

NoMessage == [type |-> "none", text |-> <<>>]

Message(text, type) == [type |-> type, text |-> text]

\* whether the pieces of part occur in text, in a row
Mentions(text, part) ==
    \E i \in 1..Len(text) :
        /\ i + Len(part) - 1 <= Len(text)
        /\ SubSeq(text, i, i + Len(part) - 1) = part

----------------------------------------------------------------------------
(* Validation and collection                                               *)

NoSpaceNoAt(s) == \A i \in 1..Len(s) : s[i] \notin Whitespace \cup {"@"}

\* /^[^\s@]+@[^\s@]+\.[^\s@]+$/.test(s)
emailRegex(s) ==
    \E i \in 1..Len(s) : \E j \in 1..Len(s) :
        /\ s[i] = "@"
        /\ s[j] = "."
        /\ 1 < i /\ i + 1 < j /\ j < Len(s)
        /\ NoSpaceNoAt(SubSeq(s, 1, i - 1))
        /\ NoSpaceNoAt(SubSeq(s, i + 1, Len(s)))

\* /^09\d{9}$/.test(s)
phoneRegex(s) ==
    /\ Len(s) = 11
    /\ s[1] = "0" /\ s[2] = "9"
    /\ \A i \in 3..11 : IsDigit(s[i])

\* missingFields without the trim of line 275
missingFieldsUntrimmed(f) == SelectSeq(requiredFields, LAMBDA id : f[id] = <<>>)

\* the required fields that are empty after trimming, in the order of the loop
missingFields(f) == SelectSeq(requiredFields, LAMBDA id : trim(f[id]) = <<>>)

\* dateOrderFails with < for <=
dateOrderFailsStrict(f) ==
    /\ f.checkin_date # <<>> /\ f.checkout_date # <<>>
    /\ NewDate(f.checkout_date) < NewDate(f.checkin_date)

dateOrderFails(f) ==
    /\ f.checkin_date # <<>> /\ f.checkout_date # <<>>
    /\ NewDate(f.checkout_date) <= NewDate(f.checkin_date)

\* the warnings of a form that passed, in the order they are shown
warnings(f) ==
    (IF /\ f.checkin_date # <<>> /\ f.checkout_date # <<>>
        /\ NewDate(f.checkin_date) < Tomorrow
     THEN <<Message(<<"Check-in date should be at least tomorrow">>, "warning")>>
     ELSE <<>>)
    \o
    (IF f.phone # <<>> /\ ~phoneRegex(f.phone)
     THEN <<Message(<<"Phone should be 11 digits starting with 09 (e.g., 09171234567)">>, "warning")>>
     ELSE <<>>)

\* validateForms over the inputs f: the verdict, and the messages it shows, in order
validateForms(f) ==
    IF missingFields(f) # <<>>
    THEN [valid |-> FALSE,
          shown |-> <<Message(<<"Please fill in: ">>
                              \o replaceFirst(fieldIdText(Head(missingFields(f))), "_", " "),
                              "error")>>]
    ELSE IF ~emailRegex(f.email)
    THEN [valid |-> FALSE,
          shown |-> <<Message(<<"Please enter a valid email address">>, "error")>>]
    ELSE IF dateOrderFails(f)
    THEN [valid |-> FALSE,
          shown |-> <<Message(<<"Check-out date must be after check-in date">>, "error")>>]
    ELSE [valid |-> TRUE, shown |-> warnings(f)]

\* the message in the page after msgs were shown in order over the message m
showAll(m, msgs) == IF msgs = <<>> THEN m ELSE msgs[Len(msgs)]

getFormData(f) ==
    [guest_name      |-> trim(f.guest_name),
     email           |-> trim(f.email),
     phone           |-> trim(f.phone),
     street_address  |-> trim(f.street_address),
     municipality    |-> trim(f.municipality),
     region          |-> trim(f.region),
     country         |-> trim(f.country),
     resort_name     |-> f.resort_name,
     checkin_date    |-> f.checkin_date,
     checkout_date   |-> f.checkout_date,
     guests          |-> NumberOr(parseInt(f.guests), 1),
     payment_gateway |-> f.payment_gateway]

----------------------------------------------------------------------------
(* Values the server sends                                                 *)

\* a JavaScript value that is a number, a string or null
JsNum(n) == [t |-> "number", n |-> n, s |-> <<>>]

JsStr(s) == [t |-> "string", n |-> 0, s |-> s]

JsNull == [t |-> "null", n |-> 0, s |-> <<>>]

\* String(v), as a template literal converts v
String(v) ==
    CASE v.t = "number" -> toString(v.n)
      [] v.t = "string" -> v.s
      [] v.t = "null"   -> <<"n", "u", "l", "l">>

\* parseInt(v): v is converted to a string first
parseIntOf(v) == IF v.t = "null" THEN NaN ELSE parseInt(String(v))

\* the reservation with id n, as the server's JSON shows it: what ValidForm
\* submitted; it has no phone, address or payment gateway
ServerRecord(n) ==
    [id            |-> JsNum(n),
     guest_name    |-> ValidForm.guest_name,
     email         |-> ValidForm.email,
     country       |-> ValidForm.country,
     resort_name   |-> ValidForm.resort_name,
     checkin_date  |-> ValidForm.checkin_date,
     checkout_date |-> ValidForm.checkout_date,
     guests        |-> Number(2),
     created_at    |-> <<"t">>]

\* the outcome of response.json()
JsonArray(items) == [ok |-> TRUE, t |-> "array", items |-> items, obj |-> [none |-> <<>>]]

JsonObject(obj) == [ok |-> TRUE, t |-> "object", items |-> <<>>, obj |-> obj]

JsonNull == [ok |-> TRUE, t |-> "null", items |-> <<>>, obj |-> [none |-> <<>>]]

NotJson == [ok |-> FALSE, t |-> "none", items |-> <<>>, obj |-> [none |-> <<>>]]

\* a <reservation> element: its attributes and its child elements, in document order
Element(attrs, children) == [attrs |-> attrs, children |-> children]

\* the element the server writes for the reservation with id n
ServerElement(n) ==
    Element(<<[name |-> "id", value |-> toString(n)]>>,
            <<[tag |-> "guest_name", text |-> ValidForm.guest_name],
              [tag |-> "email", text |-> ValidForm.email],
              [tag |-> "country", text |-> ValidForm.country],
              [tag |-> "resort_name", text |-> ValidForm.resort_name],
              [tag |-> "checkin_date", text |-> ValidForm.checkin_date],
              [tag |-> "checkout_date", text |-> ValidForm.checkout_date],
              [tag |-> "guests", text |-> <<"2">>],
              [tag |-> "created_at", text |-> <<"t">>]>>)

\* the document DOMParser returns: it never throws, and for text that is not
\* well-formed XML the document holds a parsererror element and the reservation
\* elements the engine had read before the error, if it keeps them
XmlDocument(reservations) == [wellformed |-> TRUE, reservations |-> reservations]

XmlParserError(kept) == [wellformed |-> FALSE, reservations |-> kept]

\* a response body: its text, what response.json() makes of it and what DOMParser makes of it
Body(text, json, xml) == [text |-> text, json |-> json, xml |-> xml]

JsonBody(text, json) == Body(text, json, XmlParserError(<<>>))

XmlBody(text, xml) == Body(text, NotJson, xml)

\* the bodies a list response may carry
ListBodies ==
    { JsonBody(<<"[]">>, JsonArray(<<>>)),
      JsonBody(<<"[1,2]">>, JsonArray(<<ServerRecord(1), ServerRecord(2)>>)),
      XmlBody(<<"<reservations>2,1</reservations>">>,
              XmlDocument(<<ServerElement(2), ServerElement(1)>>)) }

\* the bodies an error response may carry
ErrorBodies ==
    { JsonBody(<<"{error}">>, JsonObject([error |-> <<"Database error">>])),
      JsonBody(<<"{}">>, JsonObject([detail |-> <<"x">>])),
      Body(<<"Internal Server Error">>, NotJson, XmlParserError(<<>>)),
      Body(<<"<reservations><reservation id=1>">>, NotJson,
           XmlParserError(<<ServerElement(1)>>)) }

\* a response: fetch rejected (no response at all), or a status and a body
Rejected == [rejected |-> TRUE, status |-> 0, body |-> Body(<<>>, NotJson, XmlParserError(<<>>))]

Response(status, body) == [rejected |-> FALSE, status |-> status, body |-> body]

\* response.ok
ok(r) == 200 <= r.status /\ r.status <= 299

----------------------------------------------------------------------------
(* Requests                                                                *)

API_BASE == <<"/reservations">>

RECURSIVE replaceAll(_, _, _)
\* String.prototype.replace(/c/g, by)
replaceAll(s, c, by) ==
    IF s = <<>> THEN <<>>
    ELSE (IF Head(s) = c THEN by ELSE <<Head(s)>>) \o replaceAll(Tail(s), c, by)

\* escapeXml with the ampersands replaced last
escapeXmlAmpLast(unsafe) ==
    IF unsafe = <<>> THEN <<>>
    ELSE replaceAll(
           replaceAll(
             replaceAll(
               replaceAll(
                 replaceAll(unsafe, "<", <<"&", "l", "t", ";">>),
                 ">", <<"&", "g", "t", ";">>),
               "\"", <<"&", "q", "u", "o", "t", ";">>),
             "'", <<"&", "a", "p", "o", "s", ";">>),
           "&", <<"&", "a", "m", "p", ";">>)

escapeXml(unsafe) ==
    IF unsafe = <<>> THEN <<>>
    ELSE replaceAll(
           replaceAll(
             replaceAll(
               replaceAll(
                 replaceAll(unsafe, "&", <<"&", "a", "m", "p", ";">>),
                 "<", <<"&", "l", "t", ";">>),
               ">", <<"&", "g", "t", ";">>),
             "\"", <<"&", "q", "u", "o", "t", ";">>),
           "'", <<"&", "a", "p", "o", "s", ";">>)

\* the entity references of XML and the characters they stand for
Entities ==
    { [ref |-> <<"&", "a", "m", "p", ";">>,      char |-> "&"],
      [ref |-> <<"&", "l", "t", ";">>,           char |-> "<"],
      [ref |-> <<"&", "g", "t", ";">>,           char |-> ">"],
      [ref |-> <<"&", "q", "u", "o", "t", ";">>, char |-> "\""],
      [ref |-> <<"&", "a", "p", "o", "s", ";">>, char |-> "'"] }

startsWith(t, prefix) == Len(t) >= Len(prefix) /\ SubSeq(t, 1, Len(prefix)) = prefix

\* the entity reference t starts with, as a set of at most one
entityAt(t) == { e \in Entities : startsWith(t, e.ref) }

RECURSIVE wellFormedText(_)
\* whether t may stand between two tags: it has no "<", and every "&" starts an
\* entity reference
wellFormedText(t) ==
    IF t = <<>> THEN TRUE
    ELSE IF Head(t) = "<" THEN FALSE
    ELSE IF Head(t) = "&"
    THEN /\ entityAt(t) # {}
         /\ LET e == CHOOSE e \in entityAt(t) : TRUE
            IN  wellFormedText(SubSeq(t, Len(e.ref) + 1, Len(t)))
    ELSE wellFormedText(Tail(t))

RECURSIVE decodeEntities(_)
\* the text content of well-formed text: the entity references are replaced
decodeEntities(t) ==
    IF t = <<>> THEN <<>>
    ELSE IF entityAt(t) # {}
    THEN LET e == CHOOSE e \in entityAt(t) : TRUE
         IN  <<e.char>> \o decodeEntities(SubSeq(t, Len(e.ref) + 1, Len(t)))
    ELSE <<Head(t)>> \o decodeEntities(Tail(t))

RECURSIVE encodeURIComponent(_)
\* letters and digits pass; a space is percent-encoded
encodeURIComponent(s) ==
    IF s = <<>> THEN <<>>
    ELSE (IF Head(s) = " " THEN <<"%", "2", "0">> ELSE <<Head(s)>>)
         \o encodeURIComponent(Tail(s))

NoBody == [json |-> <<>>, xml |-> <<>>]

\* JSON.stringify(formData): the body carries the record
jsonBody(formData) == [json |-> <<formData>>, xml |-> <<>>]

\* the <reservation> document of submitReservation: its child elements in order
xmlBody(formData) ==
    [json |-> <<>>,
     xml |-> <<[tag |-> "guest_name",      text |-> escapeXml(formData.guest_name)],
               [tag |-> "email",           text |-> escapeXml(formData.email)],
               [tag |-> "phone",           text |-> escapeXml(formData.phone)],
               [tag |-> "street_address",  text |-> escapeXml(formData.street_address)],
               [tag |-> "municipality",    text |-> escapeXml(formData.municipality)],
               [tag |-> "region",          text |-> escapeXml(formData.region)],
               [tag |-> "country",         text |-> escapeXml(formData.country)],
               [tag |-> "resort_name",     text |-> escapeXml(formData.resort_name)],
               [tag |-> "checkin_date",    text |-> escapeXml(formData.checkin_date)],
               [tag |-> "checkout_date",   text |-> escapeXml(formData.checkout_date)],
               [tag |-> "guests",          text |-> escapeXml(numberToString(formData.guests))],
               [tag |-> "payment_gateway", text |-> escapeXml(formData.payment_gateway)]>>]

\* a fetch awaiting its response: the request, and the locals (format, id) the
\* suspended handler resumes with
Request(kind, method, url, contentType, body, format, id) ==
    [kind |-> kind, method |-> method, url |-> url, contentType |-> contentType,
     body |-> body, format |-> format, id |-> id]

\* the fetch of loadReservations, lines 70-78
listRequest(search, format) ==
    Request("list", "GET",
            API_BASE \o <<"?format=", format>>
                \o (IF trim(search) # <<>>
                    THEN <<"&q=">> \o encodeURIComponent(trim(search))
                    ELSE <<>>),
            "", NoBody, format, <<>>)

\* submitRequest with the id left out of the URL of a JSON update
submitRequestNoId(format, formData, mode, editId) ==
    Request("submit",
            IF mode THEN "PUT" ELSE "POST",
            IF format = "xml"
            THEN (IF mode
                  THEN API_BASE \o <<"/">> \o editId \o <<"?format=xml">>
                  ELSE API_BASE \o <<"?format=xml">>)
            ELSE API_BASE,
            IF format = "xml" THEN "application/xml" ELSE "application/json",
            IF format = "xml" THEN xmlBody(formData) ELSE jsonBody(formData),
            format, <<>>)

\* the fetch of submitReservation, lines 184-221
submitRequest(format, formData, mode, editId) ==
    Request("submit",
            IF mode THEN "PUT" ELSE "POST",
            IF format = "xml"
            THEN (IF mode
                  THEN API_BASE \o <<"/">> \o editId \o <<"?format=xml">>
                  ELSE API_BASE \o <<"?format=xml">>)
            ELSE (IF mode THEN API_BASE \o <<"/">> \o editId ELSE API_BASE),
            IF format = "xml" THEN "application/xml" ELSE "application/json",
            IF format = "xml" THEN xmlBody(formData) ELSE jsonBody(formData),
            format, <<>>)

\* editRequest asking for the XML format
editRequestWithFormat(id) ==
    Request("edit", "GET", API_BASE \o <<"/">> \o id \o <<"?format=xml">>, "", NoBody, "", id)

\* the fetch of editReservation, line 421
editRequest(id) ==
    Request("edit", "GET", API_BASE \o <<"/">> \o id, "", NoBody, "", id)

\* the fetch of deleteReservation, lines 464-466
deleteRequest(id) ==
    Request("delete", "DELETE", API_BASE \o <<"/">> \o id, "", NoBody, "", id)

\* the fetch of viewReservation, line 347
viewRequest(id, format) ==
    Request("view", "GET", API_BASE \o <<"/">> \o id \o <<"?format=", format>>,
            "", NoBody, format, id)

\* the outstanding fetches are a bag: two of them may be the same request
NoRequests == EmptyBag

Sent(reqs) == [q \in { reqs[i] : i \in 1..Len(reqs) } |-> 1]

Outstanding(p) == BagCardinality(p)

\* DOMParser.parseFromString of a document that holds the one <reservation> element
\* with the given child elements, each with its text as written
parseFromString(children) ==
    IF \A i \in 1..Len(children) : wellFormedText(children[i].text)
    THEN XmlDocument(<<Element(<<>>, [i \in 1..Len(children) |->
                                         [tag  |-> children[i].tag,
                                          text |-> decodeEntities(children[i].text)]])>>)
    ELSE XmlParserError(<<>>)

----------------------------------------------------------------------------
(* The table                                                               *)

\* the table body: the "No reservations found" row, or one row per record
Table(placeholder, rows) == [placeholder |-> placeholder, rows |-> rows]

getXmlValue(element, tagName) ==
    LET tags == SelectSeq(element.children, LAMBDA c : c.tag = tagName)
    IN  IF tags # <<>> THEN tags[1].text ELSE <<>>

\* element.getAttribute(name) || otherwise
getAttributeOr(element, name, otherwise) ==
    LET found == SelectSeq(element.attrs, LAMBDA a : a.name = name)
    IN  IF found # <<>> /\ found[1].value # <<>> THEN found[1].value ELSE otherwise

\* the record loadReservations builds from a <reservation> element, lines 85-100
xmlRecord(res) ==
    [id              |-> JsStr(getAttributeOr(res, "id", getXmlValue(res, "id"))),
     guest_name      |-> getXmlValue(res, "guest_name"),
     email           |-> getXmlValue(res, "email"),
     phone           |-> getXmlValue(res, "phone"),
     street_address  |-> getXmlValue(res, "street_address"),
     municipality    |-> getXmlValue(res, "municipality"),
     region          |-> getXmlValue(res, "region"),
     country         |-> getXmlValue(res, "country"),
     resort_name     |-> getXmlValue(res, "resort_name"),
     checkin_date    |-> getXmlValue(res, "checkin_date"),
     checkout_date   |-> getXmlValue(res, "checkout_date"),
     guests          |-> IF getXmlValue(res, "guests") = <<>>
                         THEN Number(1)
                         ELSE parseInt(getXmlValue(res, "guests")),
     payment_gateway |-> getXmlValue(res, "payment_gateway"),
     created_at      |-> getXmlValue(res, "created_at")]

\* parseInt(a.id) || 0
sortKey(r) == IF "id" \in DOMAIN r THEN NumberOr(parseIntOf(r.id), 0).val ELSE 0

RECURSIVE insertSorted(_, _)
\* r put into the sorted rows after every row whose key is not smaller
insertSorted(rows, r) ==
    IF rows = <<>> THEN <<r>>
    ELSE IF sortKey(Head(rows)) >= sortKey(r)
         THEN <<Head(rows)>> \o insertSorted(Tail(rows), r)
         ELSE <<r>> \o rows

\* sortById leaving the records as they came
sortByIdAsGiven(rs) == rs

RECURSIVE sortById(_)
\* Array.prototype.sort with the comparator idB - idA: descending, stable
sortById(rs) ==
    IF rs = <<>> THEN <<>>
    ELSE insertSorted(sortById(SubSeq(rs, 1, Len(rs) - 1)), rs[Len(rs)])

\* renderTable(reservations): the table it leaves, and whether it threw.  The table
\* is emptied first (line 118); a value that is no array has no length 0 and no sort
\* method, and null has no properties at all, so both throw a TypeError after that
renderTable(value) ==
    IF value.t # "array" THEN [table |-> Table(FALSE, <<>>), threw |-> TRUE]
    ELSE IF value.items = <<>> THEN [table |-> Table(TRUE, <<>>), threw |-> FALSE]
    ELSE [table |-> Table(FALSE, sortById(value.items)), threw |-> FALSE]

\* the ids the row buttons of the table pass to viewReservation, editReservation
\* and deleteReservation
RowIds(t) == { String(t.rows[i].id) : i \in 1..Len(t.rows) }

----------------------------------------------------------------------------
(* Responses                                                               *)

\* text that is neither JSON nor well-formed XML
Garbage == Body(<<"<html>">>, NotJson, XmlParserError(<<>>))

ErrorJson == JsonBody(<<"{error}">>, JsonObject([error |-> <<"Database error">>]))

\* the responses to a list request
ListResponses ==
    {Rejected}
    \cup { Response(200, b) : b \in ListBodies \cup {Garbage} }
    \cup { Response(500, b) : b \in ErrorBodies }

\* the responses to a list request that the specification of the whole page draws from
FewListResponses ==
    { Rejected,
      Response(200, JsonBody(<<"[1,2]">>, JsonArray(<<ServerRecord(1), ServerRecord(2)>>))),
      Response(500, ErrorJson) }

\* the responses to the fetch of one record
RecordResponses ==
    { Rejected,
      Response(200, JsonBody(<<"{1}">>, JsonObject(ServerRecord(1)))),
      Response(200, Garbage),
      Response(404, ErrorJson) }

\* the responses to the fetch of editReservation: also a record that has only an
\* id and a guest name, and one whose guests is 0
EditResponses ==
    RecordResponses
    \cup { Response(200, JsonBody(<<"{2}">>,
                                  JsonObject([id |-> JsNum(2), guest_name |-> <<"B">>]))),
           Response(200, JsonBody(<<"{1,0}">>,
                                  JsonObject([ServerRecord(1) EXCEPT !.guests = Number(0)]))) }

\* the responses to the fetch of viewReservation
ViewResponses ==
    RecordResponses
    \cup { Response(200, XmlBody(<<"<reservation id=1>">>, XmlDocument(<<ServerElement(1)>>))) }

\* the responses to a POST or PUT
SubmitResponses ==
    { Rejected,
      Response(201, JsonBody(<<"{1}">>, JsonObject(ServerRecord(1)))),
      Response(500, ErrorJson) }

\* the responses to a DELETE that the specification of the whole page draws from
FewDeleteResponses ==
    { Response(200, JsonBody(<<"{message}">>, JsonObject([message |-> <<"deleted">>]))),
      Response(404, ErrorJson) }

\* the responses to a DELETE
DeleteResponses ==
    { Rejected,
      Response(200, JsonBody(<<"{message}">>, JsonObject([message |-> <<"deleted">>]))),
      Response(404, ErrorJson),
      Response(404, JsonBody(<<"{}">>, JsonObject([detail |-> <<"x">>]))),
      Response(500, JsonBody(<<"null">>, JsonNull)),
      Response(500, Garbage) }

\* error.message of the errors the engine itself throws
FailedToFetch == <<"Failed to fetch">>

JsonSyntaxError == <<"Unexpected token in JSON">>

NullTypeError == <<"Cannot read properties of null">>

----------------------------------------------------------------------------
(* The handlers                                                            *)

\* the handler that ran last and how it ended
Last(op, outcome) == [op |-> op, outcome |-> outcome]

\* resetForms without line 331
resetFormsKeepingId ==
    [form          |-> [FormDefaults EXCEPT !.country = Philippines],
     editMode      |-> FALSE,
     currentEditId |-> JsStr(<<"1">>)]

\* what resetForms leaves in the form and in the edit state, lines 327-337
resetForms ==
    [form          |-> [FormDefaults EXCEPT !.country = Philippines],
     editMode      |-> FALSE,
     currentEditId |-> JsNull]

\* the detail modal as the page loads: hidden and empty
NoModal == [open |-> FALSE, details |-> [by |-> "", of |-> <<>>]]

Init ==
    /\ editMode = FALSE
    /\ currentEditId = JsNull
    \* the page's inputs start with their default values, as resetForms restores them
    /\ form = resetForms.form
    /\ searchInput = <<>>
    /\ responseFormat = "json"
    /\ table = Table(FALSE, <<>>)
    /\ message = NoMessage
    /\ modal = NoModal
    /\ currentFormat = "JSON"
    /\ timezone = Manila
    \* the load listener has called loadReservations, lines 55-56
    /\ pending = Sent(<<listRequest(<<>>, "json")>>)
    /\ last = Last("load", "sent")

\* the user fills the form in
userInput(f) ==
    /\ form' = f
    /\ UNCHANGED <<editMode, currentEditId, searchInput, responseFormat, table, message,
                   pending, last, modal, currentFormat, timezone>>

\* the user types a search term
userSearchInput(q) ==
    /\ searchInput' = q
    /\ UNCHANGED <<editMode, currentEditId, form, responseFormat, table, message, pending,
                   last, modal, currentFormat, timezone>>

\* the user picks a response format
userResponseFormat(format) ==
    /\ responseFormat' = format
    /\ UNCHANGED <<editMode, currentEditId, form, searchInput, table, message, pending, last,
                   modal, currentFormat, timezone>>

\* loadReservations up to its fetch, called by the search button, lines 29 and 68-78
clickSearch ==
    /\ Outstanding(pending) < MaxPending
    /\ pending' = pending (+) Sent(<<listRequest(searchInput, responseFormat)>>)
    /\ last' = Last("loadReservations", "sent")
    /\ UNCHANGED <<editMode, currentEditId, form, searchInput, responseFormat, table, message,
                   modal, currentFormat, timezone>>

\* the refresh button, lines 30-33
clickRefresh ==
    /\ Outstanding(pending) < MaxPending
    /\ searchInput' = <<>>
    /\ pending' = pending (+) Sent(<<listRequest(<<>>, responseFormat)>>)
    /\ last' = Last("loadReservations", "sent")
    /\ UNCHANGED <<editMode, currentEditId, form, responseFormat, table, message, modal,
                   currentFormat, timezone>>

LoadFailed ==
    Message(<<"Failed to load reservations. Make sure the backend server is running.">>, "error")

\* what loadReservations does with the response r to a list request of the given
\* format, lines 80-109: the table and the message it leaves over the table t and
\* the message m
loadReservationsEnd(format, r, t, m) ==
    IF r.rejected THEN [table |-> t, message |-> LoadFailed, outcome |-> "rejected"]
    ELSE IF format = "xml"
    THEN [table   |-> renderTable(JsonArray(
                          [i \in 1..Len(r.body.xml.reservations) |->
                              xmlRecord(r.body.xml.reservations[i])])).table,
          message |-> m,
          outcome |-> "rendered"]
    ELSE IF ~r.body.json.ok
    THEN [table |-> t, message |-> LoadFailed, outcome |-> "threw"]
    ELSE IF renderTable(r.body.json).threw
    THEN [table |-> renderTable(r.body.json).table, message |-> LoadFailed, outcome |-> "threw"]
    ELSE [table |-> renderTable(r.body.json).table, message |-> m, outcome |-> "rendered"]

\* listResponse dropping a response that arrives while another fetch is outstanding
listResponseUnlessOthers(req, r) ==
    /\ req.kind = "list"
    /\ LET end == loadReservationsEnd(req.format, r, table, message)
       IN  /\ table' = (IF Outstanding(pending) > 1 THEN table ELSE end.table)
           /\ message' = end.message
           /\ last' = Last("loadReservations", end.outcome)
    /\ pending' = pending (-) Sent(<<req>>)
    /\ UNCHANGED <<editMode, currentEditId, form, searchInput, responseFormat, modal,
                   currentFormat, timezone>>

\* the response to a list request arrives
listResponse(req, r) ==
    /\ req.kind = "list"
    /\ LET end == loadReservationsEnd(req.format, r, table, message)
       IN  /\ table' = end.table
           /\ message' = end.message
           /\ last' = Last("loadReservations", end.outcome)
    /\ pending' = pending (-) Sent(<<req>>)
    /\ UNCHANGED <<editMode, currentEditId, form, searchInput, responseFormat, modal,
                   currentFormat, timezone>>

\* submitReservation without the return of line 179
submitReservationStartNoReturn(format, f, mode, editId, m) ==
    [message |-> showAll(m, validateForms(f).shown),
     sent    |-> <<submitRequest(format, getFormData(f), mode, String(editId))>>]

\* submitReservation returning while a submission is outstanding
submitReservationStartOnce(format, f, mode, editId, m) ==
    IF ~validateForms(f).valid \/ \E p \in BagToSet(pending) : p.kind = "submit"
    THEN [message |-> showAll(m, validateForms(f).shown), sent |-> <<>>]
    ELSE [message |-> showAll(m, validateForms(f).shown),
          sent    |-> <<submitRequest(format, getFormData(f), mode, String(editId))>>]

\* submitReservation up to its fetch, lines 177-221: the message it leaves over the
\* message m and the request it sends, if any
submitReservationStart(format, f, mode, editId, m) ==
    IF ~validateForms(f).valid
    THEN [message |-> showAll(m, validateForms(f).shown), sent |-> <<>>]
    ELSE [message |-> showAll(m, validateForms(f).shown),
          sent    |-> <<submitRequest(format, getFormData(f), mode, String(editId))>>]

\* a submit button is clicked
submitReservation(format) ==
    LET start == submitReservationStart(format, form, editMode, currentEditId, message)
    IN  /\ start.sent # <<>> => Outstanding(pending) < MaxPending
        /\ message' = start.message
        /\ pending' = pending (+) Sent(start.sent)
        /\ last' = Last("submitReservation", IF start.sent = <<>> THEN "invalid" ELSE "sent")
        /\ UNCHANGED <<editMode, currentEditId, form, searchInput, responseFormat, table,
                       modal, currentFormat, timezone>>

\* `Failed to ${editMode ? 'update' : 'create'} reservation: ${error.message}`, line 239
submitFailedMessage(mode, errorMessage) ==
    Message(<<"Failed to ", IF mode THEN "update" ELSE "create", " reservation: ">>
            \o errorMessage, "error")

\* the success notice, lines 228-230
successMessage(mode, editId) ==
    IF mode
    THEN Message(<<"Reservation #">> \o String(editId) \o <<" updated successfully!">>, "success")
    ELSE Message(<<"Reservation created successfully!">>, "success")

\* new Error(`HTTP ${response.status}: ${errorText}`).message, line 225
httpErrorText(r) == <<"HTTP ">> \o toString(r.status) \o <<": ">> \o r.body.text

\* submitReservation resetting the form whatever the response
submitReservationEndResetting(r, mode, editId, f) ==
    IF r.rejected
    THEN [editMode |-> mode, currentEditId |-> editId, form |-> f, reload |-> FALSE,
          message |-> submitFailedMessage(mode, FailedToFetch), outcome |-> "rejected"]
    ELSE IF ~ok(r)
    THEN [editMode |-> resetForms.editMode, currentEditId |-> resetForms.currentEditId,
          form |-> resetForms.form, reload |-> FALSE,
          message |-> submitFailedMessage(mode, httpErrorText(r)), outcome |-> "failed"]
    ELSE [editMode |-> resetForms.editMode, currentEditId |-> resetForms.currentEditId,
          form |-> resetForms.form, reload |-> TRUE,
          message |-> successMessage(mode, editId), outcome |-> "success"]

\* submitReservation without the loadReservations() of line 235
submitReservationEndNoReload(r, mode, editId, f) ==
    IF r.rejected
    THEN [editMode |-> mode, currentEditId |-> editId, form |-> f, reload |-> FALSE,
          message |-> submitFailedMessage(mode, FailedToFetch), outcome |-> "rejected"]
    ELSE IF ~ok(r)
    THEN [editMode |-> mode, currentEditId |-> editId, form |-> f, reload |-> FALSE,
          message |-> submitFailedMessage(mode, httpErrorText(r)), outcome |-> "failed"]
    ELSE [editMode |-> resetForms.editMode, currentEditId |-> resetForms.currentEditId,
          form |-> resetForms.form, reload |-> FALSE,
          message |-> successMessage(mode, editId), outcome |-> "success"]

\* submitReservation from its fetch on, lines 221-240, resumed with the edit state
\* (mode, editId) and the form f of that moment: what it leaves of them, the message,
\* and whether it calls loadReservations
submitReservationEnd(r, mode, editId, f) ==
    IF r.rejected
    THEN [editMode |-> mode, currentEditId |-> editId, form |-> f, reload |-> FALSE,
          message |-> submitFailedMessage(mode, FailedToFetch), outcome |-> "rejected"]
    ELSE IF ~ok(r)
    THEN [editMode |-> mode, currentEditId |-> editId, form |-> f, reload |-> FALSE,
          message |-> submitFailedMessage(mode, httpErrorText(r)), outcome |-> "failed"]
    ELSE [editMode |-> resetForms.editMode, currentEditId |-> resetForms.currentEditId,
          form |-> resetForms.form, reload |-> TRUE,
          message |-> successMessage(mode, editId), outcome |-> "success"]

\* the response to a submit arrives
submitResponse(req, r) ==
    /\ req.kind = "submit"
    /\ LET end == submitReservationEnd(r, editMode, currentEditId, form)
       IN  /\ editMode' = end.editMode
           /\ currentEditId' = end.currentEditId
           /\ form' = end.form
           /\ message' = end.message
           /\ pending' = (pending (-) Sent(<<req>>))
                           (+) Sent(IF end.reload
                                    THEN <<listRequest(searchInput, responseFormat)>>
                                    ELSE <<>>)
           /\ last' = Last("submitReservation", end.outcome)
    /\ UNCHANGED <<searchInput, responseFormat, table, modal, currentFormat, timezone>>

\* the cancel button, lines 339-342
cancelEdit ==
    /\ form' = resetForms.form
    /\ editMode' = resetForms.editMode
    /\ currentEditId' = resetForms.currentEditId
    /\ message' = Message(<<"Edit cancelled">>, "info")
    /\ last' = Last("cancelEdit", "reset")
    /\ UNCHANGED <<searchInput, responseFormat, table, pending, modal, currentFormat, timezone>>

\* the Edit button of a row: editReservation up to its fetch, lines 419-421
editReservation(id) ==
    /\ Outstanding(pending) < MaxPending
    /\ pending' = pending (+) Sent(<<editRequest(id)>>)
    /\ last' = Last("editReservation", "sent")
    /\ UNCHANGED <<editMode, currentEditId, form, searchInput, responseFormat, table, message,
                   modal, currentFormat, timezone>>

\* reservation[field] || '', as the form input then holds it
fieldOrEmpty(obj, field) == IF field \in DOMAIN obj THEN obj[field] ELSE <<>>

\* the form editReservation fills from the parsed object, lines 429-440
populated(obj) ==
    [f \in FieldIds |->
        IF f = "guests"
        THEN numberToString(IF "guests" \in DOMAIN obj
                            THEN NumberOr(obj.guests, 1)
                            ELSE Number(1))
        ELSE fieldOrEmpty(obj, f)]

\* editReservation without line 444
editReservationEndKeepingId(id, r, mode, editId, f) ==
    IF r.rejected \/ ~ok(r) \/ ~r.body.json.ok \/ r.body.json.t = "null"
    THEN [editMode |-> mode, currentEditId |-> editId, form |-> f,
          message |-> Message(<<"Failed to load reservation #">> \o id \o <<" for editing">>,
                              "error"),
          outcome |-> "failed"]
    ELSE [editMode |-> TRUE, currentEditId |-> editId,
          form |-> populated(IF r.body.json.t = "object" THEN r.body.json.obj ELSE [none |-> <<>>]),
          message |-> Message(<<"Editing reservation #">> \o id
                              \o <<". Make your changes and click Update.">>, "info"),
          outcome |-> "editing"]

\* editReservation filling the form before it tests response.ok: the body of a
\* response that is not ok is read as the record
editReservationEndFillingFirst(id, r, mode, editId, f) ==
    IF r.rejected \/ ~r.body.json.ok \/ r.body.json.t = "null"
    THEN [editMode |-> mode, currentEditId |-> editId, form |-> f,
          message |-> Message(<<"Failed to load reservation #">> \o id \o <<" for editing">>,
                              "error"),
          outcome |-> "failed"]
    ELSE IF ~ok(r)
    THEN [editMode |-> mode, currentEditId |-> editId,
          form |-> populated(IF r.body.json.t = "object" THEN r.body.json.obj ELSE [none |-> <<>>]),
          message |-> Message(<<"Failed to load reservation #">> \o id \o <<" for editing">>,
                              "error"),
          outcome |-> "failed"]
    ELSE [editMode |-> TRUE, currentEditId |-> JsStr(id),
          form |-> populated(IF r.body.json.t = "object" THEN r.body.json.obj ELSE [none |-> <<>>]),
          message |-> Message(<<"Editing reservation #">> \o id
                              \o <<". Make your changes and click Update.">>, "info"),
          outcome |-> "editing"]

\* editReservation(id) from its fetch on, lines 421-457, resumed with the edit state
\* (mode, editId) and the form f of that moment
editReservationEnd(id, r, mode, editId, f) ==
    IF r.rejected \/ ~ok(r) \/ ~r.body.json.ok \/ r.body.json.t = "null"
    THEN [editMode |-> mode, currentEditId |-> editId, form |-> f,
          message |-> Message(<<"Failed to load reservation #">> \o id \o <<" for editing">>,
                              "error"),
          outcome |-> "failed"]
    ELSE [editMode |-> TRUE, currentEditId |-> JsStr(id),
          form |-> populated(IF r.body.json.t = "object" THEN r.body.json.obj ELSE [none |-> <<>>]),
          message |-> Message(<<"Editing reservation #">> \o id
                              \o <<". Make your changes and click Update.">>, "info"),
          outcome |-> "editing"]

\* the response to the fetch of editReservation arrives
editResponse(req, r) ==
    /\ req.kind = "edit"
    /\ LET end == editReservationEnd(req.id, r, editMode, currentEditId, form)
       IN  /\ editMode' = end.editMode
           /\ currentEditId' = end.currentEditId
           /\ form' = end.form
           /\ message' = end.message
           /\ last' = Last("editReservation", end.outcome)
    /\ pending' = pending (-) Sent(<<req>>)
    /\ UNCHANGED <<searchInput, responseFormat, table, modal, currentFormat, timezone>>

\* deleteReservation without the confirm() of line 461
deleteReservationStartUnconfirmed(id, confirmed) == <<deleteRequest(id)>>

\* deleteReservation(id) up to its fetch, lines 460-466: the request it sends, if
\* any; confirmed is the user's answer to confirm()
deleteReservationStart(id, confirmed) ==
    IF ~confirmed THEN <<>> ELSE <<deleteRequest(id)>>

\* the Delete button of a row
deleteReservation(id, confirmed) ==
    /\ deleteReservationStart(id, confirmed) # <<>> => Outstanding(pending) < MaxPending
    /\ pending' = pending (+) Sent(deleteReservationStart(id, confirmed))
    /\ last' = Last("deleteReservation",
                    IF deleteReservationStart(id, confirmed) = <<>> THEN "declined" ELSE "sent")
    /\ UNCHANGED <<editMode, currentEditId, form, searchInput, responseFormat, table, message,
                   modal, currentFormat, timezone>>

\* error.message in the catch of deleteReservation for a response that is not ok,
\* lines 472-473
deleteErrorText(r) ==
    IF ~r.body.json.ok THEN JsonSyntaxError
    ELSE IF r.body.json.t = "null" THEN NullTypeError
    ELSE IF r.body.json.t = "object" /\ "error" \in DOMAIN r.body.json.obj
            /\ r.body.json.obj.error # <<>>
    THEN r.body.json.obj.error
    ELSE <<"HTTP ">> \o toString(r.status)

\* deleteReservation reloading the list whatever the response
deleteReservationEndReloading(id, r) ==
    [reload |-> TRUE, outcome |-> IF r.rejected \/ ~ok(r) THEN "failed" ELSE "success",
     message |-> Message(<<"Reservation #">> \o id \o <<" deleted successfully">>, "success")]

\* deleteReservation(id) from its fetch on, lines 464-478
deleteReservationEnd(id, r) ==
    IF r.rejected
    THEN [reload |-> FALSE, outcome |-> "rejected",
          message |-> Message(<<"Failed to delete reservation #">> \o id \o <<": ">>
                              \o FailedToFetch, "error")]
    ELSE IF ok(r)
    THEN [reload |-> TRUE, outcome |-> "success",
          message |-> Message(<<"Reservation #">> \o id \o <<" deleted successfully">>, "success")]
    ELSE [reload |-> FALSE, outcome |-> "failed",
          message |-> Message(<<"Failed to delete reservation #">> \o id \o <<": ">>
                              \o deleteErrorText(r), "error")]

\* the response to a DELETE arrives
deleteResponse(req, r) ==
    /\ req.kind = "delete"
    /\ LET end == deleteReservationEnd(req.id, r)
       IN  /\ message' = end.message
           /\ pending' = (pending (-) Sent(<<req>>))
                           (+) Sent(IF end.reload
                                    THEN <<listRequest(searchInput, responseFormat)>>
                                    ELSE <<>>)
           /\ last' = Last("deleteReservation", end.outcome)
    /\ UNCHANGED <<editMode, currentEditId, form, searchInput, responseFormat, table, modal,
                   currentFormat, timezone>>

\* the content viewReservation puts into #modalDetails: the text a formatter made
\* of the body.  The formatters are total on strings and on parsed JSON values, and
\* their output is kept as the formatter applied to its input
Details(by, of) == [by |-> by, of |-> of]

formatXmlForDisplay(xml) == Details("formatXmlForDisplay", xml)

\* JSON.stringify(data, null, 2) of the value parsed from the body text
stringify(text) == Details("JSON.stringify", text)

ViewFailed(id) == Message(<<"Failed to load reservation #">> \o id, "error")

\* the View button of a row: viewReservation up to its fetch, lines 344-347
viewReservation(id) ==
    /\ Outstanding(pending) < MaxPending
    /\ pending' = pending (+) Sent(<<viewRequest(id, responseFormat)>>)
    /\ last' = Last("viewReservation", "sent")
    /\ UNCHANGED <<editMode, currentEditId, form, searchInput, responseFormat, table, message,
                   modal, currentFormat, timezone>>

\* viewReservation(id) from its fetch on, lines 347-375, with the local format, over
\* the modal mdl and the message m.  For JSON the modal is filled and displayed at
\* lines 364-365; line 369 then reads data, which is declared by the const of line
\* 360 inside the else block and is not in scope there, so a ReferenceError is
\* thrown and the catch shows the error
viewReservationEnd(id, format, r, mdl, m) ==
    IF r.rejected \/ ~ok(r)
    THEN [modal |-> mdl, message |-> ViewFailed(id), outcome |-> "failed"]
    ELSE IF format = "xml"
    THEN [modal   |-> [open |-> TRUE, details |-> formatXmlForDisplay(r.body.text)],
          message |-> m,
          outcome |-> "shown"]
    ELSE IF ~r.body.json.ok
    THEN [modal |-> mdl, message |-> ViewFailed(id), outcome |-> "failed"]
    ELSE [modal   |-> [open |-> TRUE, details |-> stringify(r.body.text)],
          message |-> IF format = "json" THEN ViewFailed(id) ELSE m,
          outcome |-> IF format = "json" THEN "threw" ELSE "shown"]

\* the response to the fetch of viewReservation arrives
viewResponse(req, r) ==
    /\ req.kind = "view"
    /\ LET end == viewReservationEnd(req.id, req.format, r, modal, message)
       IN  /\ modal' = end.modal
           /\ message' = end.message
           /\ last' = Last("viewReservation", end.outcome)
    /\ pending' = pending (-) Sent(<<req>>)
    /\ UNCHANGED <<editMode, currentEditId, form, searchInput, responseFormat, table,
                   currentFormat, timezone>>

\* the close button of the modal, or a click on its backdrop, lines 525-534
closeModal ==
    /\ modal.open
    /\ modal' = [modal EXCEPT !.open = FALSE]
    /\ last' = Last("closeModal", "closed")
    /\ UNCHANGED <<editMode, currentEditId, form, searchInput, responseFormat, table, message,
                   currentFormat, pending, timezone>>

\* the format toggle, lines 481-489
toggleFormat ==
    /\ currentFormat' = (IF currentFormat = "JSON" THEN "XML" ELSE "JSON")
    /\ message' = Message(<<"Submission format changed to ", currentFormat'>>, "info")
    /\ last' = Last("toggleFormat", "toggled")
    /\ UNCHANGED <<editMode, currentEditId, form, searchInput, responseFormat, table, modal,
                   pending, timezone>>

----------------------------------------------------------------------------
(* The specification                                                       *)

Formats == {"json", "xml"}

SearchInputs == {<<>>, <<"q">>}

Next ==
    \/ \E f \in FormInputs : userInput(f)
    \/ clickSearch
    \/ clickRefresh
    \/ \E req \in BagToSet(pending) : \E r \in FewListResponses : listResponse(req, r)
    \/ \E format \in Formats : submitReservation(format)
    \/ \E req \in BagToSet(pending) : \E r \in SubmitResponses : submitResponse(req, r)
    \/ cancelEdit
    \/ \E id \in RowIds(table) : editReservation(id)
    \/ \E req \in BagToSet(pending) : \E r \in RecordResponses : editResponse(req, r)
    \/ \E id \in RowIds(table) : \E confirmed \in BOOLEAN : deleteReservation(id, confirmed)
    \/ \E req \in BagToSet(pending) : \E r \in FewDeleteResponses : deleteResponse(req, r)

Spec == Init /\ [][Next]_vars

\* list loading alone, with every list response and both response formats
NextList ==
    \/ \E format \in Formats : userResponseFormat(format)
    \/ \E q \in SearchInputs : userSearchInput(q)
    \/ clickSearch
    \/ clickRefresh
    \/ \E req \in BagToSet(pending) : \E r \in ListResponses : listResponse(req, r)

SpecList == Init /\ [][NextList]_vars

\* deleting alone, with every response to a DELETE
NextDelete ==
    \/ clickSearch
    \/ \E req \in BagToSet(pending) : \E r \in FewListResponses : listResponse(req, r)
    \/ \E id \in RowIds(table) : \E confirmed \in BOOLEAN : deleteReservation(id, confirmed)
    \/ \E req \in BagToSet(pending) : \E r \in DeleteResponses : deleteResponse(req, r)

SpecDelete == Init /\ [][NextDelete]_vars

\* the characters escapeXml replaces, a letter and the semicolon that ends a reference
EscapeAlphabet == {"&", "<", ">", "\"", "'", "a", ";"}

\* every text of up to MaxLen of them, and two texts that read as entity references
EscapeStrings ==
    UNION { [1..k -> EscapeAlphabet] : k \in 0..MaxLen }
    \cup { <<"&", "a", "m", "p", ";">>, <<"&", "l", "t", ";">> }

\* the inputs that take free text and are under no pattern
TextFields ==
    {"guest_name", "phone", "street_address", "municipality", "region", "country",
     "resort_name", "payment_gateway"}

\* forms with such a text in one field, or in every text field
EscapeForms ==
    { [ValidForm EXCEPT ![f] = s] :
          f \in {"guest_name", "phone", "resort_name", "payment_gateway"}, s \in EscapeStrings }
    \cup { [f \in FieldIds |-> IF f \in TextFields THEN s ELSE ValidForm[f]] :
               s \in EscapeStrings }

\* what the guests input may hold: nothing, white space, counts, a count with a
\* sign, with leading zeros, with a fraction or with letters after it, letters, and
\* a count of 22 digits
GuestsInputs ==
    { <<>>, <<" ">>, <<"2">>, <<"0">>, <<"1", "2">>, <<"-", "3">>, <<"+", "4">>, <<" ", "7">>,
      <<"0", "0", "7">>, <<"2", ".", "5">>, <<"3", "a">>, <<"a">>,
      <<"1">> \o zeros(ExponentDigits) }

GuestsForms == { [ValidForm EXCEPT !.guests = g] : g \in GuestsInputs }

\* dates around the turn of a year and of a month, and in the middle of one
Dates ==
    { IsoDate(2026, 12, 31), IsoDate(2027, 1, 1), IsoDate(2027, 1, 5), IsoDate(2027, 1, 31),
      IsoDate(2027, 2, 1), IsoDate(2027, 2, 10) }

\* forms with every pair of them, also with a guest name of white space
DateForms ==
    { [ValidForm EXCEPT !.checkin_date = a, !.checkout_date = b, !.guest_name = n] :
          a \in Dates, b \in Dates, n \in {ValidForm.guest_name, <<" ">>} }

\* what the phone input may hold: nothing, white space, a number of the pattern,
\* that number after a space, and numbers that are too short or start otherwise
Phones ==
    { <<>>, <<" ">>,
      <<"0", "9", "1", "7", "1", "2", "3", "4", "5", "6", "7">>,
      <<" ", "0", "9", "1", "7", "1", "2", "3", "4", "5", "6", "7">>,
      <<"0", "8", "1", "7", "1", "2", "3", "4", "5", "6", "7">>,
      <<"1", "2", "3">> }

\* forms that check in from the day before the page runs to two days after, with
\* each of the phones
WarningForms ==
    { [ValidForm EXCEPT !.checkin_date = DateStr(d), !.checkout_date = DateStr(9),
                        !.phone = ph] : d \in 1..4, ph \in Phones }

\* what the e-mail input may hold: an address, the address after or before a space,
\* an address without a dot, white space, nothing
Emails ==
    { ValidForm.email, <<" ">> \o ValidForm.email, ValidForm.email \o <<" ">>,
      <<"a", "@", "b">>, <<" ">>, <<>> }

\* forms that differ from the valid one in the e-mail and the guests inputs, or in
\* one of the other required inputs by white space or by being empty
VerdictForms ==
    { [ValidForm EXCEPT !.email = e, !.guests = g] :
          e \in Emails, g \in {<<"2">>, <<"1">>, <<>>, <<"a">>, <<"0">>} }
    \cup { [ValidForm EXCEPT ![f] = s \o ValidForm[f]] :
               f \in {"guest_name", "resort_name"}, s \in {<<>>, <<" ">>} }
    \cup { [ValidForm EXCEPT ![f] = s] :
               f \in {"guest_name", "resort_name"}, s \in {<<>>, <<" ">>} }
    \cup { [ValidForm EXCEPT ![f] = <<>>] : f \in {"checkin_date", "checkout_date"} }

\* the forms the functions of the form are applied to
FormsUnderTest ==
    EscapeForms \cup GuestsForms \cup DateForms \cup WarningForms \cup VerdictForms

\* the page as it has loaded with a form and a response format the browser kept;
\* the forms that may draw a warning are loaded in each of the zones
InitForm ==
    /\ editMode = FALSE
    /\ currentEditId = JsNull
    /\ form \in FormsUnderTest
    /\ searchInput = <<>>
    /\ responseFormat \in Formats
    /\ table = Table(FALSE, <<>>)
    /\ message = NoMessage
    /\ modal = NoModal
    /\ currentFormat = "JSON"
    /\ timezone \in (IF form \in WarningForms THEN Zones ELSE {Manila})
    /\ pending = Sent(<<listRequest(<<>>, responseFormat)>>)
    /\ last = Last("load", "sent")

\* the response to a list request when the server holds the one reservation that
\* the outstanding XML submission q has sent it
echoResponse(req, q) ==
    /\ q.kind = "submit"
    /\ q.format = "xml"
    /\ listResponse(req, Response(200, XmlBody(<<"<reservations>q</reservations>">>,
                                               parseFromString(q.body.xml))))

\* validation, collection and encoding of the form, and the reading of what was
\* encoded
NextForm ==
    \/ \E format \in Formats : submitReservation(format)
    \/ \E req \in BagToSet(pending) : \E r \in FewListResponses : listResponse(req, r)
    \/ \E req \in BagToSet(pending) : \E q \in BagToSet(pending) : echoResponse(req, q)

SpecForm == InitForm /\ [][NextForm]_vars

\* the page as it has loaded with one of the forms that differ by white space or by
\* the guests input
InitVerdict ==
    /\ editMode = FALSE
    /\ currentEditId = JsNull
    /\ form \in VerdictForms
    /\ searchInput = <<>>
    /\ responseFormat \in Formats
    /\ table = Table(FALSE, <<>>)
    /\ message = NoMessage
    /\ modal = NoModal
    /\ currentFormat = "JSON"
    /\ timezone = Manila
    /\ pending = Sent(<<listRequest(<<>>, responseFormat)>>)
    /\ last = Last("load", "sent")

\* validation and collection of those forms
SpecVerdict == InitVerdict /\ [][NextForm]_vars

\* the ids a record of a list may have: numbers, a string of digits, null, a string
\* of letters; and a record may have no id at all
SortIds == {JsNum(3), JsStr(<<"1", "0">>), JsNull, JsNum(7), JsStr(<<"a">>)}

SortRecords == { [id |-> v, guest_name |-> <<"A">>] : v \in SortIds } \cup { [guest_name |-> <<"A">>] }

\* the list responses with up to MaxRows such records, in every order
SortResponses ==
    { Response(200, JsonBody(<<"[...]">>, JsonArray(items))) :
          items \in UNION { [1..k -> SortRecords] : k \in 1..MaxRows } }

\* rendering lists whose order matters: the first load of the page
NextSort == \E req \in BagToSet(pending) : \E r \in SortResponses : listResponse(req, r)

SpecSort == Init /\ [][NextSort]_vars

\* what a <guests> element may hold: nothing, counts, a count after a space, a
\* count with a fraction, letters
XmlGuests == { <<>>, <<"2">>, <<" ", "3">>, <<"2", ".", "5">>, <<"a">>, <<"0">> }

\* <reservation> elements with and without an id attribute, an id element, a
\* guests element, and with no, one or two guest_name elements
XmlElements ==
    { Element(attrs, ids \o names \o guests) :
          attrs \in { <<>>, <<[name |-> "id", value |-> <<"5">>]>>,
                      <<[name |-> "id", value |-> <<>>]>> },
          ids \in { <<>>, <<[tag |-> "id", text |-> <<"6">>]>> },
          names \in { <<>>, <<[tag |-> "guest_name", text |-> <<"A">>]>>,
                      <<[tag |-> "guest_name", text |-> <<"A">>],
                        [tag |-> "guest_name", text |-> <<"B">>]>> },
          guests \in {<<>>} \cup { <<[tag |-> "guests", text |-> g]>> : g \in XmlGuests } }

\* the list responses that hold one such element
XmlResponses ==
    { Response(200, XmlBody(<<"<reservations>e</reservations>">>, XmlDocument(<<e>>))) :
          e \in XmlElements }

\* reading XML lists
NextXml ==
    \/ \E format \in Formats : userResponseFormat(format)
    \/ clickSearch
    \/ \E req \in BagToSet(pending) : \E r \in XmlResponses : listResponse(req, r)

SpecXml == Init /\ [][NextXml]_vars

\* every handler that fetches, each with a response that succeeds and responses
\* that fail; the form is filled by editReservation
NextAll ==
    \/ clickSearch
    \/ \E req \in BagToSet(pending) : \E r \in FewListResponses : listResponse(req, r)
    \/ \E format \in Formats : submitReservation(format)
    \/ \E req \in BagToSet(pending) : \E r \in SubmitResponses : submitResponse(req, r)
    \/ \E id \in RowIds(table) : editReservation(id)
    \/ \E req \in BagToSet(pending) : \E r \in RecordResponses : editResponse(req, r)
    \/ \E id \in RowIds(table) : \E confirmed \in BOOLEAN : deleteReservation(id, confirmed)
    \/ \E req \in BagToSet(pending) : \E r \in FewDeleteResponses : deleteResponse(req, r)
    \/ \E id \in RowIds(table) : viewReservation(id)
    \/ \E req \in BagToSet(pending) : \E r \in RecordResponses : viewResponse(req, r)
    \/ closeModal

SpecAll == Init /\ [][NextAll]_vars

\* editing and submitting, with the format selector and the format toggle
NextEdit ==
    \/ \E format \in Formats : userResponseFormat(format)
    \/ toggleFormat
    \/ \E req \in BagToSet(pending) : \E r \in FewListResponses : listResponse(req, r)
    \/ \E id \in RowIds(table) : editReservation(id)
    \/ \E req \in BagToSet(pending) : \E r \in EditResponses : editResponse(req, r)
    \/ \E format \in Formats : submitReservation(format)
    \/ \E req \in BagToSet(pending) : \E r \in SubmitResponses : submitResponse(req, r)

SpecEdit == Init /\ [][NextEdit]_vars

\* viewing alone, in both response formats
NextView ==
    \/ \E format \in Formats : userResponseFormat(format)
    \/ \E req \in BagToSet(pending) : \E r \in FewListResponses : listResponse(req, r)
    \/ \E id \in RowIds(table) : viewReservation(id)
    \/ \E req \in BagToSet(pending) : \E r \in ViewResponses : viewResponse(req, r)
    \/ closeModal

SpecView == Init /\ [][NextView]_vars

\* what the search input may hold when a handler reloads the list: nothing, white
\* space, two words with a space after them
ReloadSearches == {<<>>, <<" ">>, <<"a", " ", "b", " ">>}

\* the responses to a POST, PUT or DELETE after which the list is or is not loaded
\* again: 201 with the record, 204 with no body, and failures with and without JSON
ReloadResponses ==
    { Rejected,
      Response(201, JsonBody(<<"{1}">>, JsonObject(ServerRecord(1)))),
      Response(204, Body(<<>>, NotJson, XmlParserError(<<>>))),
      Response(404, ErrorJson),
      Response(500, Garbage) }

\* submitting and deleting while the search term and the response format change
NextReload ==
    \/ \E q \in ReloadSearches : userSearchInput(q)
    \/ \E format \in Formats : userResponseFormat(format)
    \/ userInput(ValidForm)
    \/ \E req \in BagToSet(pending) : \E r \in FewListResponses : listResponse(req, r)
    \/ submitReservation("json")
    \/ \E req \in BagToSet(pending) : \E r \in ReloadResponses : submitResponse(req, r)
    \/ \E id \in RowIds(table) : deleteReservation(id, TRUE)
    \/ \E req \in BagToSet(pending) : \E r \in ReloadResponses : deleteResponse(req, r)

SpecReload == Init /\ [][NextReload]_vars

\* the record with the id n as a server that holds records 1 and 2 shows it; the
\* guest names of the two differ
StoredRecord(n) == [ServerRecord(n) EXCEPT !.guest_name = <<"G">> \o toString(n)]

\* what that server answers to the request req: to a list request with a search
\* term the one record that matches, to one without both records, and to the fetch
\* of one record that record
answerTo(req) ==
    IF req.kind = "list"
    THEN (IF Mentions(req.url, <<"&q=">>)
          THEN Response(200, JsonBody(<<"[1]">>, JsonArray(<<StoredRecord(1)>>)))
          ELSE Response(200, JsonBody(<<"[1,2]">>,
                                      JsonArray(<<StoredRecord(1), StoredRecord(2)>>))))
    ELSE Response(200, JsonBody(<<"{">>  \o req.id \o <<"}">>,
                                JsonObject(StoredRecord(parseInt(req.id).val))))

\* fetches that overlap: the page has loaded and asked for the whole list; the user
\* types a search term and from then on searches, edits and views.  The server
\* answers each request in its own time, and takes longest over the whole list: its
\* answer to the page load arrives when the table shows the answer to a search
NextOverlap ==
    \/ userSearchInput(<<"q">>)
    \/ searchInput # <<>> /\ clickSearch
    \/ \E id \in RowIds(table) : editReservation(id)
    \/ \E id \in RowIds(table) : viewReservation(id)
    \/ \E req \in BagToSet(pending) :
          /\ ~Mentions(req.url, <<"&q=">>) => RowIds(table) = {<<"1">>}
          /\ listResponse(req, answerTo(req))
    \/ \E req \in BagToSet(pending) : editResponse(req, answerTo(req))
    \/ \E req \in BagToSet(pending) : viewResponse(req, answerTo(req))

SpecOverlap == Init /\ [][NextOverlap]_vars

----------------------------------------------------------------------------
(* Properties                                                              *)

\* C1: in every reachable state editMode is true if and only if currentEditId
\* is not null.
EditStateConsistent == editMode <=> (currentEditId # JsNull)

\* an edit has been loaded while another fetch is outstanding
EditStateConsistentWitness ==
    /\ editMode
    /\ currentEditId = JsStr(<<"2">>)
    /\ pending # NoRequests

\* C2: a submission that passes validation sends one request; it is a PUT to
\* {base}/{currentEditId} if editMode is true at that moment and a POST to {base}
\* otherwise; it has ?format=xml and Content-Type application/xml exactly when the
\* format is xml, and application/json with no query otherwise; and it is a PUT
\* exactly if its URL goes on with an id after the base.
SubmitRequestShape ==
    [][\A format \in Formats :
          (/\ last' = Last("submitReservation", "sent")
           /\ submitReservation(format)
           /\ validateForms(form).valid) =>
              \E q \in BagToSet(pending') :
                  /\ pending' = pending (+) Sent(<<q>>)
                  /\ q.kind = "submit"
                  /\ q.method = (IF editMode THEN "PUT" ELSE "POST")
                  /\ q.url = (IF editMode
                              THEN API_BASE \o <<"/">> \o String(currentEditId)
                              ELSE API_BASE)
                             \o (IF format = "xml" THEN <<"?format=xml">> ELSE <<>>)
                  /\ q.contentType = (IF format = "xml" THEN "application/xml"
                                      ELSE "application/json")
                  /\ (q.method = "PUT") <=> (Len(q.url) >= 2 /\ q.url[2] = "/")
      ]_vars

\* an update is outstanding in each of the two formats
SubmitRequestShapeWitness ==
    /\ \E q \in BagToSet(pending) : q.kind = "submit" /\ q.method = "PUT" /\ q.format = "xml"
    /\ \E q \in BagToSet(pending) : q.kind = "submit" /\ q.method = "PUT" /\ q.format = "json"

\* C3: when a required field is empty after trimming, the e-mail does not match the
\* pattern or the check-out is not after the check-in, submitReservation sends no
\* request, shows an error and leaves the edit state, the form and the table as they
\* were; for an empty guest_name the error mentions "guest name".
InvalidSubmitBlocked ==
    [][\A format \in Formats :
          (/\ last'.op = "submitReservation"
           /\ submitReservation(format)
           /\ \/ \E i \in 1..Len(requiredFields) : trim(form[requiredFields[i]]) = <<>>
              \/ ~emailRegex(form.email)
              \/ dateOrderFails(form)) =>
              /\ pending' = pending
              /\ message'.type = "error"
              /\ UNCHANGED <<editMode, currentEditId, form, table>>
              /\ trim(form.guest_name) = <<>> =>
                    Mentions(message'.text, <<"guest", " ", "name">>)
      ]_vars

\* a submit in edit mode was blocked for a guest name of white space
InvalidSubmitBlockedWitness ==
    /\ last = Last("submitReservation", "invalid")
    /\ form.guest_name = <<" ">>
    /\ editMode
    /\ Mentions(message.text, <<"guest", " ", "name">>)

\* C4: when a submission gets a 2xx response, the notice says "updated #X" exactly
\* if the submission was sent as a PUT to id X, and "created" exactly if it was sent
\* as a POST, whatever happened while it was in flight.
NoticeMatchesRequest ==
    [][\A req \in BagToSet(pending) : \A r \in SubmitResponses :
          (/\ last' = Last("submitReservation", "success")
           /\ submitResponse(req, r) /\ ~r.rejected /\ ok(r)) =>
              IF req.method = "PUT"
              THEN \E X \in {<<"1">>, <<"2">>} :
                      /\ req.url \in {API_BASE \o <<"/">> \o X,
                                      API_BASE \o <<"/">> \o X \o <<"?format=xml">>}
                      /\ message' = Message(<<"Reservation #">> \o X
                                            \o <<" updated successfully!">>, "success")
              ELSE message' = Message(<<"Reservation created successfully!">>, "success")
      ]_vars

\* C5: in the initial state, after the handler of a 2xx submit response and after
\* cancelEdit, editMode is false and currentEditId is null; cancelEdit can always
\* run and sends no request.
ResetWhenDone ==
    /\ []((last \in {Last("load", "sent"),
                     Last("submitReservation", "success"),
                     Last("cancelEdit", "reset")})
             => (~editMode /\ currentEditId = JsNull))
    /\ [](ENABLED cancelEdit)
    /\ [][(last'.op = "cancelEdit" /\ cancelEdit) => pending' = pending]_vars

\* an edit was cancelled while a fetch was outstanding
ResetWhenDoneWitness ==
    /\ last = Last("cancelEdit", "reset")
    /\ pending # NoRequests
    /\ ~editMode

\* C6: when a submission gets a response that is not 2xx, the user is shown an
\* error with "HTTP {status}: {body text}", the edit state and the form stay as they
\* were, and no list request is sent.
SubmitFailureKeepsState ==
    [][\A req \in BagToSet(pending) : \A r \in SubmitResponses :
          (/\ last'.op = "submitReservation"
           /\ submitResponse(req, r) /\ ~r.rejected /\ ~ok(r)) =>
              /\ message'.type = "error"
              /\ Mentions(message'.text,
                          <<"HTTP ">> \o toString(r.status) \o <<": ">> \o r.body.text)
              /\ UNCHANGED <<editMode, currentEditId, form>>
              /\ pending' = pending (-) Sent(<<req>>)
      ]_vars

\* an update failed with status 500 and the page is still editing
SubmitFailureKeepsStateWitness ==
    /\ last = Last("submitReservation", "failed")
    /\ Mentions(message.text, <<"HTTP ", "5", "0", "0", ": ">>)
    /\ editMode
    /\ form = ValidForm

\* a list load fails: the fetch is rejected, the status is not 2xx, or the body is
\* malformed for the format that was asked for
listLoadFails(format, r) ==
    \/ r.rejected
    \/ ~ok(r)
    \/ format = "xml" /\ ~r.body.xml.wellformed
    \/ format # "xml" /\ (~r.body.json.ok \/ r.body.json.t # "array")

\* C7: whenever a list load fails, the table keeps the contents it had.
FailedLoadKeepsTable ==
    [][\A req \in BagToSet(pending) : \A r \in ListResponses :
          (/\ last'.op = "loadReservations"
           /\ listResponse(req, r) /\ listLoadFails(req.format, r)) => table' = table
      ]_vars

\* C8: whenever a list load fails, the "Failed to load reservations" error is shown.
FailedLoadShowsError ==
    [][\A req \in BagToSet(pending) : \A r \in ListResponses :
          (/\ last'.op = "loadReservations"
           /\ listResponse(req, r) /\ listLoadFails(req.format, r)) => message' = LoadFailed
      ]_vars

\* C9: a DELETE is sent only by a deleteReservation the user confirmed; when the
\* user declines, no request is sent, no message is shown and nothing of the page
\* changes.
DeclinedDeleteDoesNothing ==
    [][/\ \A id \in RowIds(table) :
              (last'.op = "deleteReservation" /\ deleteReservation(id, FALSE)) =>
                  UNCHANGED <<editMode, currentEditId, form, searchInput, responseFormat,
                              table, message, modal, currentFormat, timezone, pending>>
       /\ (\E q \in BagToSet(pending') :
              q.method = "DELETE" /\ CopiesIn(q, pending') > CopiesIn(q, pending))
            => \E id \in RowIds(table) : deleteReservation(id, TRUE)
      ]_vars

\* a delete was declined while the page was editing
DeclinedDeleteDoesNothingWitness ==
    /\ last = Last("deleteReservation", "declined")
    /\ editMode
    /\ message # NoMessage

\* C10: when a DELETE gets a response that is not 2xx, the error shows the error
\* field of the body if the body is JSON and has one, and "HTTP {status}" otherwise,
\* also when the body is not JSON.
DeleteErrorFallsBack ==
    [][\A req \in BagToSet(pending) : \A r \in DeleteResponses :
          (/\ last'.op = "deleteReservation"
           /\ deleteResponse(req, r) /\ ~r.rejected /\ ~ok(r)) =>
              message'.text =
                  <<"Failed to delete reservation #">> \o req.id \o <<": ">>
                  \o (IF /\ r.body.json.ok
                         /\ r.body.json.t = "object"
                         /\ "error" \in DOMAIN r.body.json.obj
                      THEN r.body.json.obj.error
                      ELSE <<"HTTP ">> \o toString(r.status))
      ]_vars

\* the body of the response r is well formed for the format that was asked for
wellFormedFor(format, r) ==
    IF format = "xml" THEN r.body.xml.wellformed ELSE r.body.json.ok

\* C11: a viewReservation(id) whose response arrives either opens the modal with the
\* rendered record and shows no error, or shows an error naming id and leaves the
\* modal as it was, never both; a 2xx response with a well-formed body gives the
\* first outcome.
ViewEndsOneWay ==
    [][\A req \in BagToSet(pending) : \A r \in ViewResponses :
          (last'.op = "viewReservation" /\ viewResponse(req, r)) =>
              LET opened == /\ modal'.open
                            /\ modal'.details.of = r.body.text
                            /\ message' = message
                  failed == /\ message'.type = "error"
                            /\ Mentions(message'.text, req.id)
                            /\ modal' = modal
              IN  /\ opened \/ failed
                  /\ (~r.rejected /\ ok(r) /\ wellFormedFor(req.format, r)) => opened
      ]_vars

\* C12: editReservation(id) asks for {base}/{id} with no format parameter whatever
\* the format selector and the format toggle say; on a 2xx response with a JSON
\* record it fills every form field from the record, a missing field becoming the
\* empty string and missing guests 1, and sets editMode and currentEditId = id in
\* that step; the next valid submit is then a PUT to that id.
EditLoadsRecord ==
    /\ [][\A id \in RowIds(table) :
              (last' = Last("editReservation", "sent") /\ editReservation(id)) =>
                  \E q \in BagToSet(pending') :
                      /\ pending' = pending (+) Sent(<<q>>)
                      /\ q.method = "GET"
                      /\ q.url = API_BASE \o <<"/">> \o id
         ]_vars
    /\ [][\A req \in BagToSet(pending) : \A r \in EditResponses :
              (/\ last'.op = "editReservation"
               /\ editResponse(req, r)
               /\ ~r.rejected /\ ok(r) /\ r.body.json.ok /\ r.body.json.t = "object") =>
                  LET record == r.body.json.obj
                  IN  /\ \A f \in FieldIds \ {"guests"} :
                            form'[f] = (IF f \in DOMAIN record THEN record[f] ELSE <<>>)
                      /\ "guests" \notin DOMAIN record => form'.guests = <<"1">>
                      /\ ("guests" \in DOMAIN record /\ record.guests.val > 0) =>
                            form'.guests = toString(record.guests.val)
                      /\ editMode'
                      /\ currentEditId' = JsStr(req.id)
         ]_vars
    /\ [][\A format \in Formats :
              (/\ last' = Last("submitReservation", "sent")
               /\ last.op = "editReservation" /\ last.outcome = "editing"
               /\ submitReservation(format)) =>
                  \E q \in BagToSet(pending') :
                      /\ pending' = pending (+) Sent(<<q>>)
                      /\ q.method = "PUT"
                      /\ q.url = API_BASE \o <<"/">> \o String(currentEditId)
                                 \o (IF format = "xml" THEN <<"?format=xml">> ELSE <<>>)
                      /\ Mentions(message.text, <<"Editing reservation #">> \o String(currentEditId))
         ]_vars

\* a record without guests was loaded for editing while the selector and the toggle
\* both say XML
EditLoadsRecordWitness ==
    /\ last = Last("editReservation", "editing")
    /\ responseFormat = "xml"
    /\ currentFormat = "XML"
    /\ currentEditId = JsStr(<<"2">>)
    /\ form.guests = <<"1">>
    /\ form.email = <<>>

\* the responses the handlers of SpecAll are given
AllResponses == FewListResponses \cup SubmitResponses \cup RecordResponses \cup FewDeleteResponses

\* the step hands the response r to the handler that awaits it with the request req
responseArrives(req, r) ==
    \/ listResponse(req, r)
    \/ submitResponse(req, r)
    \/ editResponse(req, r)
    \/ deleteResponse(req, r)
    \/ viewResponse(req, r)

\* the step is the user action that starts a handler of the given kind
userStarts(kind) ==
    CASE kind = "list"   -> clickSearch \/ clickRefresh
      [] kind = "submit" -> \E format \in Formats : submitReservation(format)
      [] kind = "edit"   -> \E id \in RowIds(table) : editReservation(id)
      [] kind = "delete" -> \E id \in RowIds(table) : deleteReservation(id, TRUE)
      [] kind = "view"   -> \E id \in RowIds(table) : viewReservation(id)

FieldOrder ==
    <<"guest_name", "email", "phone", "street_address", "municipality", "region", "country",
      "resort_name", "checkin_date", "checkout_date", "guests", "payment_gateway">>

\* C14: the XML body of submitReservation('xml') has the twelve field elements in
\* the fixed order, an absent value as an empty element, and inside every element
\* no raw & < > " or ' from the field value: each is replaced by its entity
\* reference.
XmlBodyEscaped ==
    [][(last' = Last("submitReservation", "sent") /\ submitReservation("xml")) =>
          \E q \in BagToSet(pending') :
              /\ pending' = pending (+) Sent(<<q>>)
              /\ Len(q.body.xml) = Len(FieldOrder)
              /\ \A i \in 1..Len(FieldOrder) :
                    LET value == IF FieldOrder[i] = "guests"
                                 THEN numberToString(getFormData(form).guests)
                                 ELSE getFormData(form)[FieldOrder[i]]
                        text  == q.body.xml[i].text
                    IN  /\ q.body.xml[i].tag = FieldOrder[i]
                        /\ wellFormedText(text)
                        /\ \A k \in 1..Len(text) : text[k] \notin {"<", ">", "\"", "'"}
                        /\ decodeEntities(text) = value
                        /\ value = <<>> => text = <<>>
      ]_vars

\* an XML submission is outstanding whose guest name holds an escaped ampersand and
\* an escaped apostrophe, and whose phone element is empty
XmlBodyEscapedWitness ==
    \E q \in BagToSet(pending) :
        /\ q.kind = "submit" /\ q.format = "xml"
        /\ form.guest_name = <<"&", "'">>
        /\ q.body.xml[1].text = <<"&", "a", "m", "p", ";", "&", "a", "p", "o", "s", ";">>
        /\ q.body.xml[3].text = <<>>

\* C15: encoding the record of getFormData to the XML body of submitReservation and
\* reading that <reservation> element back with the XML reader of loadReservations
\* gives the same value for each of the twelve fields, guests as an integer.
XmlRoundTrip ==
    [][\A req \in BagToSet(pending) : \A q \in BagToSet(pending) :
          (/\ last'.op = "loadReservations"
           /\ req.format = "xml"
           /\ echoResponse(req, q)) =>
              /\ Len(table'.rows) = 1
              /\ \A f \in FieldIds : table'.rows[1][f] = getFormData(form)[f]
      ]_vars

\* C19: whatever the guests input holds, getFormData returns guests as an integer
\* that is at least 1, and 1 when the input is empty or does not parse as an
\* integer; so every submitted JSON or XML body carries a positive integer guests.
GuestsPositive ==
    [][\A format \in Formats :
          (last' = Last("submitReservation", "sent") /\ submitReservation(format)) =>
              LET guests == getFormData(form).guests
              IN  /\ ~guests.nan
                  /\ guests.val >= 1
                  /\ (form.guests = <<>> \/ parseInt(form.guests).nan) => guests = Number(1)
                  /\ \E q \in BagToSet(pending') :
                        /\ pending' = pending (+) Sent(<<q>>)
                        /\ IF format = "xml"
                           THEN q.body.xml[11].text = numberToString(guests)
                           ELSE q.body.json[1].guests = guests
      ]_vars

\* the record the body of a submit request carries: the object of a JSON body, the
\* text content of the elements of an XML body
carried(q) ==
    IF q.format = "xml"
    THEN [i \in 1..Len(q.body.xml) |-> decodeEntities(q.body.xml[i].text)]
    ELSE [i \in 1..Len(FieldOrder) |->
             IF FieldOrder[i] = "guests"
             THEN numberToString(q.body.json[1].guests)
             ELSE q.body.json[1][FieldOrder[i]]]

\* the value the record carried by q has for the field
carriedField(q, field) ==
    carried(q)[CHOOSE i \in 1..Len(FieldOrder) : FieldOrder[i] = field]

RECURSIVE textBefore(_, _)
\* a comes before b in the order of strings; for two dates YYYY-MM-DD that is the
\* order of the calendar
textBefore(a, b) ==
    IF a = <<>> \/ b = <<>> THEN a = <<>> /\ b # <<>>
    ELSE IF Head(a) = Head(b) THEN textBefore(Tail(a), Tail(b))
    ELSE IsDigit(Head(a)) /\ IsDigit(Head(b)) /\ DigitValue(Head(a)) < DigitValue(Head(b))

DateOrderError == Message(<<"Check-out date must be after check-in date">>, "error")

WarningsNeverBlock ==
    [][\A format \in Formats :
          (/\ last'.op = "submitReservation"
           /\ submitReservation(format)
           /\ missingFields(form) = <<>>
           /\ emailRegex(form.email)
           /\ textBefore(form.checkin_date, form.checkout_date)) =>
              /\ \E q \in BagToSet(pending') :
                    q.kind = "submit" /\ pending' = pending (+) Sent(<<q>>)
              /\ message'.type = "warning" =>
                    \/ textBefore(form.checkin_date, TomorrowDate)
                    \/ form.phone # <<>> /\ ~phoneRegex(form.phone)
      ]_vars

\* the numeric id of a record: 0 when the id is missing or does not parse as an integer
numericId(r) ==
    IF "id" \notin DOMAIN r \/ parseIntOf(r.id).nan THEN 0 ELSE parseIntOf(r.id).val

\* how many times x occurs in the sequence s
occurrences(s, x) == Cardinality({ i \in 1..Len(s) : s[i] = x })

\* each of the lists with the table it renders to
Rendered == { <<r, renderTable(r.body.json).table>> : r \in SortResponses }

\* C18: for every non-empty list, the rows are rendered in descending order of
\* numeric id, a missing or unparseable id counting as 0, and they are a permutation
\* of the list; the ids 3, "10", null, 7 render as 10, 7, 3, null.
RowsSortedById ==
    [][\A req \in BagToSet(pending) : \A rendered \in Rendered :
          (/\ last'.op = "loadReservations"
           /\ table' = rendered[2]
           /\ listResponse(req, rendered[1])) =>
              LET items == rendered[1].body.json.items
                  rows  == table'.rows
              IN  /\ Len(rows) = Len(items)
                  /\ \A i \in 1..Len(items) :
                        occurrences(rows, items[i]) = occurrences(items, items[i])
                  /\ \A i \in 1..Len(rows) : \A j \in i..Len(rows) :
                        numericId(rows[i]) >= numericId(rows[j])
      ]_vars

\* the list with the ids 3, "10", null, 7 was rendered as 10, 7, 3, null
RowsSortedByIdWitness ==
    /\ last = Last("loadReservations", "rendered")
    /\ Len(table.rows) = 4
    /\ \A i \in 1..4 : "id" \in DOMAIN table.rows[i]
    /\ [i \in 1..4 |-> table.rows[i].id] = <<JsStr(<<"1", "0">>), JsNum(7), JsNum(3), JsNull>>

\* the child elements of e with the given tag, in document order
childrenOf(e, tag) == SelectSeq(e.children, LAMBDA c : c.tag = tag)

\* the values of the attributes of e with the given name that are not empty
attributeOf(e, name) == SelectSeq(e.attrs, LAMBDA a : a.name = name /\ a.value # <<>>)

\* each of the XML lists with the table it renders to
XmlRendered ==
    { <<r, loadReservationsEnd("xml", r, Table(FALSE, <<>>), NoMessage).table>> :
          r \in XmlResponses }

\* C20: the record read from a <reservation> element has the id of the id
\* attribute, or of the id element when there is no such attribute; every other
\* field is the text of the first element of that name, or the empty string; and
\* guests is an integer, 1 when the guests element is absent, empty or does not
\* parse as an integer.
XmlRecordRead ==
    [][\A req \in BagToSet(pending) : \A rendered \in XmlRendered :
          (/\ last'.op = "loadReservations"
           /\ req.format = "xml"
           /\ table' = rendered[2]
           /\ listResponse(req, rendered[1])) =>
              LET e   == rendered[1].body.xml.reservations[1]
                  rec == table'.rows[1]
              IN  /\ Len(table'.rows) = 1
                  /\ rec.id = JsStr(IF attributeOf(e, "id") # <<>>
                                    THEN attributeOf(e, "id")[1].value
                                    ELSE IF childrenOf(e, "id") # <<>>
                                    THEN childrenOf(e, "id")[1].text
                                    ELSE <<>>)
                  /\ \A f \in (FieldIds \ {"guests"}) \cup {"created_at"} :
                        rec[f] = (IF childrenOf(e, f) # <<>>
                                  THEN childrenOf(e, f)[1].text
                                  ELSE <<>>)
                  /\ ~rec.guests.nan
                  /\ (\/ childrenOf(e, "guests") = <<>>
                      \/ childrenOf(e, "guests")[1].text = <<>>
                      \/ parseInt(childrenOf(e, "guests")[1].text).nan) =>
                        rec.guests = Number(1)
      ]_vars

\* C21: every POST or PUT body sent by submitReservation carries a record whose
\* guest_name, email, resort_name, checkin_date and checkout_date are not empty,
\* whose email matches the pattern local@domain.tld and whose checkout_date is after
\* its checkin_date; and the body is collected from the very form that the
\* validation of that step passed.
SentRecordsValid ==
    /\ [][\A format \in Formats :
              (last' = Last("submitReservation", "sent") /\ submitReservation(format)) =>
                  /\ validateForms(form).valid
                  /\ \E q \in BagToSet(pending') :
                        /\ pending' = pending (+) Sent(<<q>>)
                        /\ q.method \in {"POST", "PUT"}
                        /\ q.body = (IF format = "xml" THEN xmlBody(getFormData(form))
                                     ELSE jsonBody(getFormData(form)))
         ]_vars
    /\ [](\A q \in BagToSet(pending) :
              q.kind = "submit" =>
                  /\ \A f \in {"guest_name", "email", "resort_name", "checkin_date",
                                "checkout_date"} : carriedField(q, f) # <<>>
                  /\ emailRegex(carriedField(q, "email"))
                  /\ textBefore(carriedField(q, "checkin_date"),
                                carriedField(q, "checkout_date")))

\* a form whose resort name starts with a space was submitted as XML, and the body
\* carries the name with its space
SentRecordsValidWitness ==
    \E q \in BagToSet(pending) :
        /\ q.kind = "submit" /\ q.format = "xml"
        /\ carriedField(q, "resort_name") = <<" ", "R">>
        /\ last = Last("submitReservation", "sent")

\* C22: the handler of a 2xx response to a submit or to a delete sends exactly one
\* list GET, whose URL is made of the search term and the response format of that
\* moment; the handler of any other response to either sends nothing.
ReloadAfterSuccess ==
    [][\A req \in BagToSet(pending) : \A r \in ReloadResponses :
          (/\ req.kind \in {"submit", "delete"}
           /\ ~r.rejected
           /\ submitResponse(req, r) \/ deleteResponse(req, r)) =>
              IF 200 <= r.status /\ r.status <= 299
              THEN \E q \in BagToSet(pending') :
                      /\ pending' = (pending (-) Sent(<<req>>)) (+) Sent(<<q>>)
                      /\ q.method = "GET"
                      /\ q.url = API_BASE \o <<"?format=", responseFormat>>
                                 \o (IF trim(searchInput) = <<>> THEN <<>>
                                     ELSE <<"&q=">> \o encodeURIComponent(trim(searchInput)))
              ELSE pending' = pending (-) Sent(<<req>>)
      ]_vars

\* a delete succeeded after the user chose XML and typed two words and a space, and
\* the one request outstanding asks for the list as XML with the two words
ReloadAfterSuccessWitness ==
    /\ last = Last("deleteReservation", "success")
    /\ \E q \in BagToSet(pending) :
          /\ pending = Sent(<<q>>)
          /\ q.url = API_BASE \o <<"?format=", "xml", "&q=", "a", "%", "2", "0", "b">>

\* the step hands the request req the answer of the server
answered(req) ==
    \/ listResponse(req, answerTo(req))
    \/ editResponse(req, answerTo(req))
    \/ viewResponse(req, answerTo(req))

\* C23: responses are applied in the order they arrive, with no guard of sequence:
\* handling the response to a list, edit or view fetch leaves the other fetches
\* outstanding and makes the table, the form and the edit state, or the modal show
\* that response, whatever else is outstanding or has completed.  So the response to
\* the fetch issued first replaces what the response to a fetch issued later has
\* shown.
LastResponseWins ==
    [][\A req \in BagToSet(pending) :
          (last'.op \in {"loadReservations", "editReservation", "viewReservation"}
           /\ answered(req)) =>
              /\ pending' = pending (-) Sent(<<req>>)
              /\ req.kind = "list" =>
                    table' = renderTable(answerTo(req).body.json).table
              /\ req.kind = "edit" =>
                    /\ form'.guest_name = <<"G">> \o req.id
                    /\ editMode' /\ currentEditId' = JsStr(req.id)
              /\ req.kind = "view" =>
                    /\ modal'.open
                    /\ modal'.details.of = <<"{">> \o req.id \o <<"}">>
      ]_vars

\* the table shows the whole list, the answer to the request of the page load, and
\* nothing is outstanding; that answer arrived when the table showed the answer to a
\* search, which was started after the page load
LastResponseWinsWitness ==
    /\ searchInput = <<"q">>
    /\ RowIds(table) = {<<"1">>, <<"2">>}
    /\ last = Last("loadReservations", "rendered")
    /\ pending = NoRequests

\* C24: submission is not guarded against re-entry: with a valid form and editMode
\* false, a submit action sends a POST with the record of the form whether or not a
\* submission is outstanding, and leaves the form as it is; so a second submit before
\* the first response sends a second POST with the same body.
SubmitNotGuarded ==
    [][\A format \in Formats :
          (/\ last'.op = "submitReservation"
           /\ submitReservation(format)
           /\ validateForms(form).valid
           /\ ~editMode
           /\ Outstanding(pending) < MaxPending) =>
              /\ form' = form
              /\ \E q \in BagToSet(pending') :
                    /\ pending' = pending (+) Sent(<<q>>)
                    /\ q.method = "POST"
                    /\ q.body = (IF format = "xml" THEN xmlBody(getFormData(form))
                                 ELSE jsonBody(getFormData(form)))
                    /\ \A p \in BagToSet(pending) :
                          (p.kind = "submit" /\ p.method = "POST" /\ p.format = format
                           /\ p.body = q.body) =>
                              CopiesIn(q, pending') = CopiesIn(p, pending) + 1
      ]_vars

\* two POST requests with the same body are outstanding, and the form still holds
\* what they carry
SubmitNotGuardedWitness ==
    \E q \in BagToSet(pending) :
        /\ q.kind = "submit" /\ q.method = "POST"
        /\ CopiesIn(q, pending) = 2
        /\ q.body = jsonBody(getFormData(form))
        /\ ~editMode
        /\ last = Last("submitReservation", "sent")

\* the notice of a successful delete of the reservation id, line 469
Deleted(id) == Message(<<"Reservation #">> \o id \o <<" deleted successfully">>, "success")

\* C25: the client never sends a PUT for an id for which it has received a
\* successful DELETE response: when deleteReservation(X) has succeeded,
\* currentEditId is not X, and a submit made while the notice of that delete is
\* shown is not a PUT to X.
NoUpdateAfterDelete ==
    /\ [][\A req \in BagToSet(pending) : \A r \in FewDeleteResponses :
              (last' = Last("deleteReservation", "success") /\ deleteResponse(req, r)) =>
                  currentEditId' # JsStr(req.id)
         ]_vars
    /\ [][\A format \in Formats :
              (/\ last' = Last("submitReservation", "sent")
               /\ submitReservation(format)
               /\ editMode) =>
                  message # Deleted(String(currentEditId))
         ]_vars

\* C26: when editReservation(id) fails, by a rejected fetch, a status that is not
\* 2xx or a body that is not JSON, then editMode, currentEditId and every form
\* field are left as they were and an error that names id is shown.
FailedEditKeepsForm ==
    [][\A req \in BagToSet(pending) : \A r \in EditResponses :
          (/\ last'.op = "editReservation"
           /\ editResponse(req, r)
           /\ r.rejected \/ ~ok(r) \/ ~r.body.json.ok) =>
              /\ editMode' = editMode
              /\ currentEditId' = currentEditId
              /\ \A f \in FieldIds : form'[f] = form[f]
              /\ message'.type = "error"
              /\ Mentions(message'.text, <<"Failed to load reservation #">> \o req.id)
      ]_vars

\* while reservation 1 was being edited, loading reservation 2 for editing failed:
\* the page still edits reservation 1 with its record in the form
FailedEditKeepsFormWitness ==
    /\ last = Last("editReservation", "failed")
    /\ Mentions(message.text, <<"Failed to load reservation #", "2">>)
    /\ editMode
    /\ currentEditId = JsStr(<<"1">>)
    /\ form.email = ValidForm.email

\* C27: the verdict of validation depends only on the record getFormData collects:
\* when a form is submitted, every form that yields the same collected record gets
\* the verdict this one got, also when the two differ in white space around the
\* e-mail address.
VerdictByRecord ==
    [][\A format \in Formats :
          (last'.op = "submitReservation" /\ submitReservation(format)) =>
              \A g \in VerdictForms :
                  getFormData(g) = getFormData(form) =>
                      (validateForms(g).valid <=> last'.outcome = "sent")
      ]_vars

====
